---- MODULE Spec2Model ----
(***************************************************************************)
(* Model of int128/exif-study, src/main.go (the second program of the      *)
(* file, lines 206-465): parseAPP1 reads the APP1 segment from a stream    *)
(* and parseTIFF walks the TIFF directories of the payload.                *)
(*                                                                         *)
(* Bytes are 0..255.  A uint16 is a number 0..65535.  A uint32 is a pair   *)
(* <<hi, lo>> of 16-bit halves, and a Go int (64 bits, the build main.go   *)
(* is written for) that may exceed 32 bits is a pair <<hi, lo>> with an    *)
(* unbounded hi: arithmetic keeps the width the source gives it.           *)
(* A Go run-time panic (slice bounds out of range) is the outcome "panic", *)
(* a returned error the outcome "error".                                   *)
(***************************************************************************)
EXTENDS Integers, Sequences, FiniteSets, TLC

\* Most entries a generated 0th IFD holds.
MaxEntries == 3

W16 == 65536

-----------------------------------------------------------------------------
(* encoding/binary and slices *)

\* b[lo:hi] of Go is legal iff 0 <= lo <= hi <= cap(b); every slice of the
\* program has cap = len (make in readBytes, then b[k:] suffixes).
SliceOK(s, lo, hi) == 0 <= lo /\ lo <= hi /\ hi <= Len(s)

Slice(s, lo, hi) == SubSeq(s, lo + 1, hi)

Drop(s, k) == SubSeq(s, k + 1, Len(s))

Uint16(en, s) ==
    IF en = "LE" THEN s[1] + 256 * s[2] ELSE 256 * s[1] + s[2]

Uint32(en, s) ==
    IF en = "LE"
    THEN <<Uint16("LE", <<s[3], s[4]>>), Uint16("LE", <<s[1], s[2]>>)>>
    ELSE <<Uint16("BE", <<s[1], s[2]>>), Uint16("BE", <<s[3], s[4]>>)>>

\* uint32 addition, wrapping at 2^32.
Add32(a, c) ==
    LET lo == a[2] + c[2]
    IN  <<(a[1] + c[1] + lo \div W16) % W16, lo % W16>>

\* int(count) * k in a 64-bit int.
Mul(count, k) ==
    LET lo == count[2] * k
    IN  <<count[1] * k + lo \div W16, lo % W16>>

\* uint32(n) of a non-negative int.
Trunc32(n) == <<n[1] % W16, n[2]>>

GT4(n) == n[1] > 0 \/ n[2] > 4

-----------------------------------------------------------------------------
(* IFDElement *)

Length(e) ==
    CASE e.Type = 3  -> Mul(e.Count, 2)
      [] e.Type = 4  -> Mul(e.Count, 4)
      [] e.Type = 5  -> Mul(e.Count, 8)
      [] e.Type = 9  -> Mul(e.Count, 8)
      [] e.Type = 10 -> Mul(e.Count, 16)
      [] OTHER       -> Mul(e.Count, 1)

ElementUint32(e, en) == Uint32(en, e.rawValue)

NoElement == [Tag |-> 0, Type |-> 0, Count |-> <<0, 0>>,
              Value |-> <<>>, rawValue |-> <<>>]

\* ifd[offset : offset+uint32(e.Length())] with uint32 bounds (line 412).
indirectValue(e, ifd, off, end) ==
    IF off[1] = 0 /\ end[1] = 0 /\ SliceOK(ifd, off[2], end[2])
    THEN [st |-> "ok", e |-> [e EXCEPT !.Value = Slice(ifd, off[2], end[2])]]
    ELSE [st |-> "panic", e |-> NoElement]

\* lines 410-416, on the element built at lines 404-409.
resolveValue(e, ifd, en) ==
    IF GT4(Length(e))
    THEN indirectValue(e, ifd, ElementUint32(e, en),
                       Add32(ElementUint32(e, en), Trunc32(Length(e))))
    ELSE [st |-> "ok", e |-> [e EXCEPT !.Value = e.rawValue]]

\* parseIFDElement(b, ifd, endian): b the 12-byte slot, ifd the slice the
\* directory was decoded from (it starts at the directory, not at the TIFF
\* header).
parseIFDElement(slot, ifd, en) ==
    IF Len(slot) # 12
    THEN [st |-> "error", e |-> NoElement]
    ELSE resolveValue([Tag      |-> Uint16(en, Slice(slot, 0, 2)),
                       Type     |-> Uint16(en, Slice(slot, 2, 4)),
                       Count    |-> Uint32(en, Slice(slot, 4, 8)),
                       Value    |-> <<>>,
                       rawValue |-> Slice(slot, 8, 12)], ifd, en)

-----------------------------------------------------------------------------
(* IFD *)

NoIFD == [set |-> FALSE, Elements |-> <<>>, rawValues |-> <<>>]

RECURSIVE parseElements(_, _, _, _, _)

\* The end of one pass of the loop of parseIFD (lines 363-365): r is what
\* parseIFDElement returned for element i.
nextElement(s, en, i, elementCount, acc, r) ==
    IF r.st # "ok"
    THEN [st |-> r.st, Elements |-> <<>>]
    ELSE parseElements(s, en, i + 1, elementCount, Append(acc, r.e))

\* The loop of parseIFD over the elements i .. elementCount-1 (lines 359-366).
parseElements(s, en, i, elementCount, acc) ==
    IF i >= elementCount
    THEN [st |-> "ok", Elements |-> acc]
    ELSE IF ~SliceOK(s, 2 + i * 12, 2 + i * 12 + 12)
         THEN [st |-> "panic", Elements |-> <<>>]
         ELSE nextElement(s, en, i, elementCount, acc,
                 parseIFDElement(Slice(s, 2 + i * 12, 2 + i * 12 + 12), s, en))

\* lines 355-367: r is what the loop over the elements returned.
makeIFD(r, rawValues) ==
    IF r.st # "ok"
    THEN [st |-> r.st, ifd |-> NoIFD]
    ELSE [st  |-> "ok",
          ifd |-> [set |-> TRUE, Elements |-> r.Elements,
                   rawValues |-> rawValues]]

\* lines 355-358: b[valuesOffset : valuesOffset+valuesLength], then the loop.
parseIFDValues(s, en, elementCount, valuesOffset, valuesLength) ==
    IF ~(valuesLength[1] = 0
         /\ SliceOK(s, valuesOffset, valuesOffset + valuesLength[2]))
    THEN [st |-> "panic", ifd |-> NoIFD]
    ELSE makeIFD(parseElements(s, en, 0, elementCount, <<>>),
                 Slice(s, valuesOffset, valuesOffset + valuesLength[2]))

\* lines 353-354; 2 + elementCount*12 + 4 is uint16 arithmetic.
parseIFDCount(s, en, elementCount) ==
    IF ~SliceOK(s, (2 + elementCount * 12) % W16,
                (2 + elementCount * 12 + 4) % W16)
    THEN [st |-> "panic", ifd |-> NoIFD]
    ELSE parseIFDValues(s, en, elementCount,
                        (2 + elementCount * 12 + 4) % W16,
                        Uint32(en, Slice(s, (2 + elementCount * 12) % W16,
                                         (2 + elementCount * 12 + 4) % W16)))

\* parseIFD(b, endian)
parseIFD(s, en) ==
    IF ~SliceOK(s, 0, 2)
    THEN [st |-> "panic", ifd |-> NoIFD]
    ELSE parseIFDCount(s, en, Uint16(en, Slice(s, 0, 2)))

\* The first element of the directory with the tag, 0 if there is none
\* (the loop of FindLinkedIFD, lines 342-347).
RECURSIVE firstWithTag(_, _, _)
firstWithTag(elements, tag, i) ==
    IF i > Len(elements) THEN 0
    ELSE IF elements[i].Tag = tag THEN i
    ELSE firstWithTag(elements, tag, i + 1)

Called(r, at) == [st |-> r.st, ifd |-> r.ifd, called |-> TRUE, at |-> at]

\* lines 344-345: parseIFD(b[offset:], endian).  called tells whether
\* parseIFD was reached, at is the offset into b it was handed.
linkedAt(buf, en, offset) ==
    IF ~(offset[1] = 0 /\ SliceOK(buf, offset[2], Len(buf)))
    THEN [st |-> "panic", ifd |-> NoIFD, called |-> FALSE, at |-> 0]
    ELSE Called(parseIFD(Drop(buf, offset[2]), en), offset[2])

\* The element FindLinkedIFD takes when i is the index of the match.
linkedElement(d, i, buf, en) ==
    IF i = 0
    THEN [st |-> "ok", ifd |-> NoIFD, called |-> FALSE, at |-> 0]
    ELSE linkedAt(buf, en, ElementUint32(d.Elements[i], en))

\* FindLinkedIFD without the comparison of the tag: the first element is
\* taken for the pointer.
FindLinkedIFD_NoTagCheck(d, tag, buf, en) ==
    linkedElement(d, IF d.Elements = <<>> THEN 0 ELSE 1, buf, en)

\* (*IFD).FindLinkedIFD(tag, b, endian): b is the whole TIFF buffer.
FindLinkedIFD(d, tag, buf, en) ==
    linkedElement(d, firstWithTag(d.Elements, tag, 1), buf, en)

-----------------------------------------------------------------------------
(* readBytes on the *os.File main opens: Read returns the bytes that are     *)
(* left, at most length of them, and io.EOF when none is left.               *)

readBytes(r, at, length) ==
    LET avail == Len(r) - at
    IN  IF length > 0 /\ avail = 0
        THEN [st |-> "error", bytes |-> <<>>]
        ELSE IF avail < length
             THEN [st |-> "error", bytes |-> <<>>]
             ELSE [st |-> "ok", bytes |-> Slice(r, at, at + length)]

app1marker == <<255, 225>>
exifMarker == <<69, 120, 105, 102, 0, 0>>

-----------------------------------------------------------------------------
(* State *)

VARIABLES
    input,      \* description the input bytes were built from (never read by the program)
    pc,         \* the statement the call is at
    result,     \* "running", "ok", "error" (returned error), "panic"
    err,        \* which error was returned
    stream,     \* the bytes of the reader handed to parseAPP1
    pos,        \* read position in stream
    app1Length, \* parseAPP1: app1Length
    b,          \* parseTIFF: the TIFF buffer
    Endian,     \* APP1.Endian
    ifdOffset,  \* parseTIFF: ifdOffset (uint32)
    rawPreIFD,  \* APP1.rawPreIFD
    IFD0, ExifIFD, GPSIFD, InteroperabilityIFD, IFD1,
    decodes     \* offsets into b that parseIFD was called at, in call order

vars == <<input, pc, result, err, stream, pos, app1Length, b, Endian,
          ifdOffset, rawPreIFD, IFD0, ExifIFD, GPSIFD, InteroperabilityIFD,
          IFD1, decodes>>

tiffVars == <<b, Endian, ifdOffset, rawPreIFD, IFD0, ExifIFD, GPSIFD,
              InteroperabilityIFD, IFD1, decodes>>

\* The call ends: how is "error" (what names the returned error) or "panic".
Fail(how, what) ==
    /\ result' = how
    /\ err' = IF how = "error" THEN what ELSE ""
    /\ UNCHANGED pc

-----------------------------------------------------------------------------
(* parseAPP1 *)

\* lines 262-268
ReadAPP1Marker ==
    /\ pc = "app1_marker" /\ result = "running"
    /\ LET r == readBytes(stream, pos, 2)
       IN  IF r.st # "ok"
           THEN Fail("error", "read") /\ UNCHANGED pos
           ELSE /\ pos' = pos + 2
                /\ IF r.bytes # app1marker
                   THEN Fail("error", "APP1 marker not found")
                   ELSE pc' = "app1_length" /\ UNCHANGED <<result, err>>
    /\ UNCHANGED <<input, stream, app1Length, tiffVars>>

\* lines 270-275
ReadAPP1Length ==
    /\ pc = "app1_length" /\ result = "running"
    /\ LET r == readBytes(stream, pos, 2)
       IN  IF r.st # "ok"
           THEN Fail("error", "read") /\ UNCHANGED <<pos, app1Length>>
           ELSE /\ pos' = pos + 2
                /\ app1Length' = Uint16("BE", r.bytes)
                /\ pc' = "app1_exif"
                /\ UNCHANGED <<result, err>>
    /\ UNCHANGED <<input, stream, tiffVars>>

\* lines 277-283
ReadExifMarker ==
    /\ pc = "app1_exif" /\ result = "running"
    /\ LET r == readBytes(stream, pos, 6)
       IN  IF r.st # "ok"
           THEN Fail("error", "read") /\ UNCHANGED pos
           ELSE /\ pos' = pos + 6
                /\ IF r.bytes # exifMarker
                   THEN Fail("error", "Exif marker not found")
                   ELSE pc' = "app1_tiff" /\ UNCHANGED <<result, err>>
    /\ UNCHANGED <<input, stream, app1Length, tiffVars>>

\* tiffLength := app1Length - 10, in uint16 (line 275)
tiffLength(len) == (len + W16 - 10) % W16

\* lines 285-289
ReadTIFF ==
    /\ pc = "app1_tiff" /\ result = "running"
    /\ LET r == readBytes(stream, pos, tiffLength(app1Length))
       IN  IF r.st # "ok"
           THEN Fail("error", "read") /\ UNCHANGED <<pos, b>>
           ELSE /\ pos' = pos + tiffLength(app1Length)
                /\ b' = r.bytes
                /\ pc' = "tiff_header"
                /\ UNCHANGED <<result, err>>
    /\ UNCHANGED <<input, stream, app1Length, Endian, ifdOffset, rawPreIFD,
                   IFD0, ExifIFD, GPSIFD, InteroperabilityIFD, IFD1, decodes>>

-----------------------------------------------------------------------------
(* parseTIFF *)

\* lines 297-310
ParseHeader ==
    /\ pc = "tiff_header" /\ result = "running"
    /\ IF ~SliceOK(b, 0, 2)
       THEN Fail("panic", "") /\ UNCHANGED <<Endian, ifdOffset, rawPreIFD>>
       ELSE IF Slice(b, 0, 2) \notin {<<77, 77>>, <<73, 73>>}
       THEN Fail("error", "Invalid endian")
            /\ UNCHANGED <<Endian, ifdOffset, rawPreIFD>>
       ELSE LET en == IF Slice(b, 0, 2) = <<77, 77>> THEN "BE" ELSE "LE"
            IN  /\ Endian' = en
                /\ IF ~SliceOK(b, 2, 4)
                   THEN Fail("panic", "") /\ UNCHANGED <<ifdOffset, rawPreIFD>>
                   ELSE IF Uint16(en, Slice(b, 2, 4)) # 42
                   THEN Fail("error", "Invalid TIFF version")
                        /\ UNCHANGED <<ifdOffset, rawPreIFD>>
                   ELSE IF ~SliceOK(b, 4, 8)
                   THEN Fail("panic", "") /\ UNCHANGED <<ifdOffset, rawPreIFD>>
                   ELSE LET off == Uint32(en, Slice(b, 4, 8))
                        IN  /\ ifdOffset' = off
                            /\ IF off[1] = 0 /\ SliceOK(b, 8, off[2])
                               THEN /\ rawPreIFD' = Slice(b, 8, off[2])
                                    /\ pc' = "ifd0"
                                    /\ UNCHANGED <<result, err>>
                               ELSE Fail("panic", "") /\ UNCHANGED rawPreIFD
    /\ UNCHANGED <<input, stream, pos, app1Length, b, IFD0, ExifIFD, GPSIFD,
                   InteroperabilityIFD, IFD1, decodes>>

\* What parseTIFF does with a directory decoded at offset at (each of lines
\* 313-333): r is what parseIFD or FindLinkedIFD returned.
Walked(r, at, what, next) ==
    /\ decodes' = IF r.called THEN Append(decodes, at) ELSE decodes
    /\ IF r.st # "ok"
       THEN Fail(r.st, what)
       ELSE /\ pc' = next
            /\ result' = IF next = "done" THEN "ok" ELSE result
            /\ UNCHANGED err

Kept(r, old) == IF r.st # "ok" THEN old ELSE r.ifd

\* lines 313-316
StoreIFD0(r) ==
    /\ Walked(r, r.at, "Could not parse 0th IFD", "exif")
    /\ IFD0' = Kept(r, IFD0)

ParseIFD0 ==
    /\ pc = "ifd0" /\ result = "running"
    /\ StoreIFD0(Called(parseIFD(Drop(b, ifdOffset[2]), Endian), ifdOffset[2]))
    /\ UNCHANGED <<input, stream, pos, app1Length, b, Endian, ifdOffset,
                   rawPreIFD, ExifIFD, GPSIFD, InteroperabilityIFD, IFD1>>

\* lines 317-320
StoreExifIFD(r) ==
    /\ Walked(r, r.at, "Could not parse Exif IFD", "gps")
    /\ ExifIFD' = Kept(r, ExifIFD)

FindExifIFD ==
    /\ pc = "exif" /\ result = "running"
    /\ StoreExifIFD(FindLinkedIFD(IFD0, 34665, b, Endian))
    /\ UNCHANGED <<input, stream, pos, app1Length, b, Endian, ifdOffset,
                   rawPreIFD, IFD0, GPSIFD, InteroperabilityIFD, IFD1>>

\* lines 321-324
StoreGPSIFD(r) ==
    /\ Walked(r, r.at, "Could not parse GPS IFD", "interop")
    /\ GPSIFD' = Kept(r, GPSIFD)

FindGPSIFD ==
    /\ pc = "gps" /\ result = "running"
    /\ StoreGPSIFD(FindLinkedIFD(IFD0, 34853, b, Endian))
    /\ UNCHANGED <<input, stream, pos, app1Length, b, Endian, ifdOffset,
                   rawPreIFD, IFD0, ExifIFD, InteroperabilityIFD, IFD1>>

\* lines 325-328
StoreInteroperabilityIFD(r) ==
    /\ Walked(r, r.at, "Could not parse Interoperability IFD", "ifd1")
    /\ InteroperabilityIFD' = Kept(r, InteroperabilityIFD)

\* The Interoperability pointer looked up in the Exif IFD when there is one.
InteropParent_Exif(ifd0, exif) == IF exif.set THEN exif ELSE ifd0

\* The directory the Interoperability pointer is looked up in (line 325).
InteropParent(ifd0, exif) == ifd0

FindInteroperabilityIFD ==
    /\ pc = "interop" /\ result = "running"
    /\ StoreInteroperabilityIFD(
           FindLinkedIFD(InteropParent(IFD0, ExifIFD), 40965, b, Endian))
    /\ UNCHANGED <<input, stream, pos, app1Length, b, Endian, ifdOffset,
                   rawPreIFD, IFD0, ExifIFD, GPSIFD, IFD1>>

\* The offset the 1st IFD is decoded at (line 329):
\* int(ifdOffset) + len(app1.IFD0.rawValues).
IFD1Offset(off, ifd0) == off[2] + Len(ifd0.rawValues)

\* lines 329-333
StoreIFD1(r) ==
    /\ Walked(r, r.at, "Could not parse 1st IFD", "done")
    /\ IFD1' = Kept(r, IFD1)

\* b[at:] and parseIFD on it (line 329).
decodeFrom(buf, en, at) ==
    IF ~SliceOK(buf, at, Len(buf))
    THEN [st |-> "panic", ifd |-> NoIFD, called |-> FALSE, at |-> at]
    ELSE Called(parseIFD(Drop(buf, at), en), at)

ParseIFD1 ==
    /\ pc = "ifd1" /\ result = "running"
    /\ StoreIFD1(decodeFrom(b, Endian, IFD1Offset(ifdOffset, IFD0)))
    /\ UNCHANGED <<input, stream, pos, app1Length, b, Endian, ifdOffset,
                   rawPreIFD, IFD0, ExifIFD, GPSIFD, InteroperabilityIFD>>

-----------------------------------------------------------------------------
(* Inputs: byte buffers built the way a writer of the format lays them out. *)

Put16(en, v) ==
    IF en = "LE" THEN <<v % 256, v \div 256>> ELSE <<v \div 256, v % 256>>

Put32(en, u) ==
    IF en = "LE"
    THEN Put16("LE", u[2]) \o Put16("LE", u[1])
    ELSE Put16("BE", u[1]) \o Put16("BE", u[2])

EncEntry(en, e) ==
    Put16(en, e.tag) \o Put16(en, e.type) \o Put32(en, e.count) \o Put32(en, e.val)

RECURSIVE EncEntries(_, _)
EncEntries(en, es) ==
    IF es = <<>> THEN <<>> ELSE EncEntry(en, Head(es)) \o EncEntries(en, Tail(es))

EncDir(en, cnt, es, trailer) ==
    Put16(en, cnt) \o EncEntries(en, es) \o Put32(en, trailer)

\* Where the sub-directory after the 0th IFD's value area starts.
TailAt == 8 + 2 + 12 * MaxEntries + 4

\* Value area: the byte at offset p of the buffer is 64 + p.
Filler(from, to) == [i \in 1..(to - from) |-> (64 + from + i - 1) % 256]

\* A directory of one entry (an Interoperability pointer to the empty
\* directory behind it) and a non-zero trailer field.
SubDir(en) ==
    EncDir(en, 1, <<[tag |-> 40965, type |-> 4, count |-> <<0, 1>>,
                     val |-> <<0, TailAt + 18>>]>>, <<0, 2>>)

\* An empty directory (count 0, trailer 0) and two more bytes.
Payload == <<0, 0, 0, 0, 0, 0, 161, 162>>

FullLen == TailAt + 18 + 8

TiffBytes(in) ==
    LET en   == in.en
        dir  == EncDir(en, in.cnt, in.entries, in.trailer)
        full == in.marker \o Put16(en, in.version) \o Put32(en, in.off)
                  \o dir \o Filler(8 + Len(dir), TailAt)
                  \o SubDir(en) \o Payload
    IN  SubSeq(full, 1, in.len)

Ptr(tag, v) == [tag |-> tag, type |-> 4, count |-> <<0, 1>>, val |-> <<0, v>>]

Val(type, count, v) == [tag |-> 271, type |-> type, count |-> count, val |-> v]

\* The entries a generated 0th IFD is made of: the three pointer tags
\* (to the sub-directory, to the empty directory, to the 0th IFD itself,
\* past the buffer), and an indirect, an inline and an SLONG value.
Templates ==
    { Ptr(34665, TailAt), Ptr(34853, TailAt), Ptr(40965, TailAt + 18),
      Ptr(34665, 8),
      [tag |-> 34853, type |-> 4, count |-> <<0, 1>>, val |-> <<1, 0>>],
      Val(2, <<0, 5>>, <<0, 14>>),
      Val(3, <<0, 1>>, <<1027, 513>>),
      Val(9, <<0, 1>>, <<0, 14>>) }

SeqsUpTo(S, n) == UNION {[1..k -> S] : k \in 0..n}

Marker(en) == IF en = "LE" THEN <<73, 73>> ELSE <<77, 77>>

\* Well-formed headers over every choice of entries, trailer and length.
MainInputs ==
    { [kind |-> "tiff", en |-> en, marker |-> Marker(en), version |-> 42,
       off |-> <<0, 8>>, cnt |-> Len(es), entries |-> es, trailer |-> t,
       len |-> l] :
        en \in {"LE", "BE"}, es \in SeqsUpTo(Templates, MaxEntries),
        t \in {<<0, 0>>, <<0, TailAt - 8>>, <<1, 0>>},
        l \in {FullLen, TailAt + 21, TailAt + 19} }

\* Odd headers, directory offsets, entry counts and truncated buffers.
OddInputs ==
    { [kind |-> "tiff", en |-> en, marker |-> m, version |-> v,
       off |-> o, cnt |-> c, entries |-> <<>>, trailer |-> <<0, 0>>,
       len |-> l] :
        en \in {"LE", "BE"}, m \in {<<73, 73>>, <<77, 77>>, <<73, 77>>},
        v \in {42, 43},
        o \in {<<0, 0>>, <<0, 8>>, <<0, 10>>, <<0, FullLen>>, <<0, 200>>, <<1, 0>>},
        c \in {0, 1, 5462},
        l \in {0, 1, 3, 6, 8, 9, 13, FullLen} }

\* A 0th IFD of one entry, over the type codes, counts and value fields.
ValueInputs ==
    { [kind |-> "tiff", en |-> en, marker |-> Marker(en), version |-> 42,
       off |-> <<0, 8>>, cnt |-> 1, entries |-> <<Val(t, c, v)>>,
       trailer |-> <<0, 0>>, len |-> FullLen] :
        en \in {"LE", "BE"}, t \in 0..13,
        c \in {<<0, 0>>, <<0, 1>>, <<0, 2>>, <<0, 3>>, <<0, 4>>, <<0, 5>>,
               <<4096, 0>>, <<65535, 65535>>},
        v \in {<<0, 14>>, <<0, FullLen - 3>>, <<65535, 65532>>, <<1027, 513>>} }

\* The document the streams carry: a little-endian header and an empty 0th IFD.
StreamDoc ==
    [kind |-> "tiff", en |-> "LE", marker |-> <<73, 73>>, version |-> 42,
     off |-> <<0, 8>>, cnt |-> 0, entries |-> <<>>, trailer |-> <<0, 0>>,
     len |-> FullLen]

StreamInputs ==
    { [kind |-> "stream", mark |-> m, L |-> l, exif |-> x, len |-> n] :
        m \in {app1marker, <<255, 224>>},
        l \in {0, 7, 9, 10, 16, 18, 22, 24, FullLen + 8, FullLen + 10},
        x \in {exifMarker, <<0, 0, 0, 0, 0, 0>>},
        n \in {0, 1, 3, 9, 10, 16, 18, 24, 10 + FullLen} }

StreamBytes(in) ==
    SubSeq(in.mark \o Put16("BE", in.L) \o in.exif \o TiffBytes(StreamDoc),
           1, in.len)

-----------------------------------------------------------------------------
(* The two entry points: parseTIFF on a buffer, parseAPP1 on a stream. *)

InitTIFF ==
    /\ input \in MainInputs \cup ValueInputs \cup OddInputs
    /\ b = TiffBytes(input)
    /\ stream = <<>>
    /\ pc = "tiff_header"

InitAPP1 ==
    /\ input \in StreamInputs
    /\ stream = StreamBytes(input)
    /\ b = <<>>
    /\ pc = "app1_marker"

Init ==
    /\ (InitTIFF \/ InitAPP1)
    /\ result = "running"
    /\ err = ""
    /\ pos = 0
    /\ app1Length = 0
    /\ Endian = "none"
    /\ ifdOffset = <<0, 0>>
    /\ rawPreIFD = <<>>
    /\ IFD0 = NoIFD
    /\ ExifIFD = NoIFD
    /\ GPSIFD = NoIFD
    /\ InteroperabilityIFD = NoIFD
    /\ IFD1 = NoIFD
    /\ decodes = <<>>

Next ==
    \/ ReadAPP1Marker
    \/ ReadAPP1Length
    \/ ReadExifMarker
    \/ ReadTIFF
    \/ ParseHeader
    \/ ParseIFD0
    \/ FindExifIFD
    \/ FindGPSIFD
    \/ FindInteroperabilityIFD
    \/ ParseIFD1

Spec == Init /\ [][Next]_vars

-----------------------------------------------------------------------------
(* The format, read straight from the TIFF buffer: the directory at offset  *)
(* o holds a 2-byte count, 12-byte entries (tag, type, count, field) and a  *)
(* 4-byte next-directory field.  Entries are numbered from 0.               *)

RawCount(o) == Uint16(Endian, Slice(b, o, o + 2))

DirFits(o) ==
    /\ o + 2 <= Len(b)
    /\ o + 2 + 12 * RawCount(o) + 4 <= Len(b)

RawTag(o, i)     == Uint16(Endian, Slice(b, o + 2 + 12 * i, o + 4 + 12 * i))
RawType(o, i)    == Uint16(Endian, Slice(b, o + 4 + 12 * i, o + 6 + 12 * i))
RawEntries(o, i) == Uint32(Endian, Slice(b, o + 6 + 12 * i, o + 10 + 12 * i))
RawField(o, i)   == Slice(b, o + 10 + 12 * i, o + 14 + 12 * i)
RawNext(o) ==
    Uint32(Endian, Slice(b, o + 2 + 12 * RawCount(o), o + 6 + 12 * RawCount(o)))

\* The type-size table of the format; 0 for a code outside 1..12.
typeSize(t) ==
    CASE t \in {1, 2, 6, 7} -> 1
      [] t \in {3, 8}       -> 2
      [] t \in {4, 9, 11}   -> 4
      [] t \in {5, 10, 12}  -> 8
      [] OTHER              -> 0

LastDecode == decodes[Len(decodes)]

PointerTags == {34665, 34853, 40965}

PointerField(tag) ==
    CASE tag = 34665 -> ExifIFD
      [] tag = 34853 -> GPSIFD
      [] tag = 40965 -> InteroperabilityIFD

Directories == {IFD0, ExifIFD, GPSIFD, InteroperabilityIFD, IFD1}

-----------------------------------------------------------------------------
(* Claims *)

\* C1: when the directory handed to parseIFD does not fit the buffer
\* (offset + 2 > length, or offset + 2 + 12*entryCount + 4 > length), the
\* decode ends with a returned error: no panic, no directory.
C1_TruncatedDirectoryIsError ==
    (decodes # <<>> /\ ~DirFits(LastDecode)) => result = "error"

\* Entry i of the directory at o has a value longer than 4 bytes whose
\* range [offset, offset + length) leaves the buffer or the 32-bit range.
ValueOutOfRange(o, i) ==
    LET len == Mul(RawEntries(o, i), typeSize(RawType(o, i)))
        off == Uint32(Endian, RawField(o, i))
        lo  == off[2] + len[2]
    IN  /\ GT4(len)
        /\ \/ off[1] + len[1] + lo \div W16 > 0
           \/ lo > Len(b)

\* C2: a directory with an entry whose value (longer than 4 bytes) lies
\* outside the buffer, or whose offset + length overflows 32 bits, ends the
\* decode with a returned error.
C2_OutOfRangeValueIsError ==
    ( /\ decodes # <<>>
      /\ DirFits(LastDecode)
      /\ \E i \in 0..(RawCount(LastDecode) - 1) : ValueOutOfRange(LastDecode, i) )
    => result = "error"

\* C3: an entry of the primary directory whose value is at most 4 bytes long
\* (count * typeSize <= 4) resolves to the first count * typeSize bytes of
\* its 4-byte field.  Stated for the entries whose length the code computes
\* as the type table does, so that a violation is not the table's (C4).
C3_InlineValueIsFieldPrefix ==
    IFD0.set =>
        \A i \in 1..Len(IFD0.Elements) :
            LET e   == IFD0.Elements[i]
                len == Mul(e.Count, typeSize(e.Type))
            IN  (e.Type \in 1..12 /\ ~GT4(len) /\ Length(e) = len)
                    => e.Value = SubSeq(e.rawValue, 1, len[2])

\* C4: every entry of a decoded primary directory has a type code in 1..12
\* and the length count * typeSize(type) of the twelve-code table; a
\* directory with another type code is never decoded.
C4_LengthFollowsTypeTable ==
    IFD0.set =>
        \A i \in 1..Len(IFD0.Elements) :
            LET e == IFD0.Elements[i]
            IN  /\ e.Type \in 1..12
                /\ Length(e) = Mul(e.Count, typeSize(e.Type))

\* C5: after a successful decode IFD1 is set iff the next-directory field of
\* the primary directory is non-zero, and then it is the directory decoded
\* at that field taken as an offset from the start of the buffer.
C5_ThumbnailFollowsNextOffset ==
    result = "ok" =>
        LET next == RawNext(ifdOffset[2])
        IN  /\ IFD1.set <=> next # <<0, 0>>
            /\ IFD1.set =>
                  /\ next[1] = 0
                  /\ next[2] <= Len(b)
                  /\ IFD1 = parseIFD(Drop(b, next[2]), Endian).ifd

\* The entries of the primary directory that carry the tag.
WithTag(tag) ==
    {i \in 0..(RawCount(ifdOffset[2]) - 1) : RawTag(ifdOffset[2], i) = tag}

\* The document field is the directory at offset v of the buffer.
IsDirectoryAt(d, v) ==
    /\ d.set
    /\ v[1] = 0
    /\ DirFits(v[2])
    /\ Len(d.Elements) = RawCount(v[2])
    /\ \A j \in 1..Len(d.Elements) :
          /\ d.Elements[j].Tag = RawTag(v[2], j - 1)
          /\ d.Elements[j].rawValue = RawField(v[2], j - 1)
    /\ d = parseIFD(Drop(b, v[2]), Endian).ifd

\* C6: after a successful decode, for each pointer tag (0x8769, 0x8825,
\* 0xA005) the document field is set iff the primary directory has an entry
\* with the tag, and then it is the directory decoded at the (first such)
\* entry's 4-byte field read as an offset from the start of the buffer.
C6_PointerTagsDecodeAtAbsoluteOffset ==
    result = "ok" =>
        \A tag \in PointerTags :
            IF WithTag(tag) = {}
            THEN ~PointerField(tag).set
            ELSE LET i == CHOOSE i \in WithTag(tag) :
                              \A j \in WithTag(tag) : i <= j
                 IN  IsDirectoryAt(PointerField(tag),
                                   Uint32(Endian, RawField(ifdOffset[2], i)))

\* C6's case: a document with the Exif and Interoperability pointers and no
\* GPS pointer, the Exif pointer leading to a directory of one entry.
C6_Witness ==
    /\ result = "ok"
    /\ ExifIFD.set /\ Len(ExifIFD.Elements) = 1
    /\ ~GPSIFD.set
    /\ InteroperabilityIFD.set
    /\ input.kind = "tiff" /\ input.en = "BE"

\* C7: in every decoded directory, the value of an entry longer than 4 bytes
\* is the bytes [offset, offset + length) of the TIFF buffer, offset being
\* the entry's 4-byte field.  Stated for the entries whose length the code
\* computes as the type table does, so that a violation is not the table's
\* (C4).
C7_IndirectValueIsAbsolute ==
    \A d \in Directories :
        d.set =>
            \A i \in 1..Len(d.Elements) :
                LET e   == d.Elements[i]
                    off == Uint32(Endian, e.rawValue)
                IN  ( /\ GT4(Length(e))
                      /\ Length(e) = Mul(e.Count, typeSize(e.Type)) )
                    => /\ off[1] = 0
                       /\ off[2] + Len(e.Value) <= Len(b)
                       /\ e.Value = Slice(b, off[2], off[2] + Len(e.Value))

\* C8: parseAPP1 takes L - 2 - 6 bytes of TIFF payload from the stream, L
\* the declared segment length, and hands them over; when L is below 8 or
\* fewer bytes are left, it ends with a returned error.
C8_PayloadIsLengthMinus8 ==
    ( /\ input.kind = "stream"
      /\ pc \notin {"app1_marker", "app1_length", "app1_exif"}
      /\ ~(pc = "app1_tiff" /\ result = "running") )
    => IF app1Length >= 8 /\ Len(stream) - 10 >= app1Length - 8
       THEN pc # "app1_tiff" /\ Len(b) = app1Length - 8
       ELSE pc = "app1_tiff" /\ result = "error"

\* C9: the 1st IFD is decoded at the end of the 0th IFD (its start + 2 +
\* 12*entryCount + 4) plus the value of the 4-byte field after the entries.
C9_IFD1AfterPayload ==
    result = "ok" =>
        LastDecode = ifdOffset[2] + 2 + 12 * RawCount(ifdOffset[2]) + 4
                        + RawNext(ifdOffset[2])[2]

\* The offsets the header and the primary directory name: its own, those of
\* its pointer entries, and the one its trailing field leads to.
PrimaryOffsets ==
    {ifdOffset[2], ifdOffset[2] + RawNext(ifdOffset[2])[2]}
      \cup {Uint32(Endian, RawField(ifdOffset[2], i))[2] :
               i \in UNION {WithTag(tag) : tag \in PointerTags}}

\* C10: one call decodes at most 5 directories, each at an offset the header
\* or the primary directory names (never one found in a linked directory),
\* and once the call has ended nothing more is decoded.
C10_AtMostFiveDirectories ==
    /\ Len(decodes) <= 5
    /\ decodes # <<>> => decodes[1] = ifdOffset[2]
    /\ Len(decodes) >= 2 => \A k \in 2..Len(decodes) : decodes[k] \in PrimaryOffsets
    /\ result # "running" => ~ENABLED Next

\* C10's case: five directories decoded, the Exif pointer leading back to the
\* primary directory and the GPS pointer to a directory that holds a pointer
\* tag of its own.
C10_Witness ==
    /\ result = "ok"
    /\ Len(decodes) = 5
    /\ decodes[2] = ifdOffset[2]
    /\ GPSIFD.set /\ \E j \in 1..Len(GPSIFD.Elements) :
                         GPSIFD.Elements[j].Tag \in PointerTags

====
